---- MODULE Spec2Model ----
(***************************************************************************)
(* BillWatch (AWS Cost Widget): the update scheduler of src/scheduler.py   *)
(* on the Tk timer queue, the configuration store of src/config.py, the    *)
(* cost sources of src/cost_fetcher.py, the startup of src/main.py and the *)
(* pure functions and drag handlers of src/widget.py.                      *)
(***************************************************************************)
EXTENDS Integers, FiniteSets, Sequences, TLC

(***************************************************************************)
(* Bounds of the model.                                                    *)
(***************************************************************************)
\* perform_update calls (fetch attempts) explored per run
MaxCycles == 4

(***************************************************************************)
(* Program constants.                                                      *)
(***************************************************************************)
\* _scheduled_id = None is written 0; Tk timer ids start at 1
NoTimer == 0
\* get_top_services(services, limit=10)
TopLimit == 10
\* random.randint(5, 10): the fewest services of a simulated snapshot
SimMinServices == 5

VARIABLES
    \* ---- UpdateScheduler and the Tk event loop it arms ----
    fetcher,        \* self.fetcher: "simulated" or "aws"
    interval,       \* self.interval, in milliseconds
    scheduled_id,   \* self._scheduled_id (NoTimer for None)
    timers,         \* root.after timers scheduled and neither fired nor cancelled
    nextId,         \* the id the next root.after call returns
    fetches,        \* number of self.fetcher() calls made so far
    renders,        \* number of widget.update_display calls made so far
    display,        \* what the widget's labels show
    errors,         \* number of "Error fetching cost data" lines printed
    op,             \* the handler that ran last: "init", "start", "stop", "timer"
    outcome,        \* how the last cycle went: "none", "ok", "fetch_raised", "render_raised"
    \* ---- the config file and the calls made on config.py ----
    file,           \* the file at config_path
    loaded,         \* the last load_config call on `file`: what it raised or returned
    saved,          \* the last save_config call: the config passed, whether it returned
    validated,      \* the last validate_refresh_interval call: its input and result
    \* ---- calls of the pure functions of widget.py and cost_fetcher.py ----
    call            \* the call made: the function, its arguments and its result

schedVars == <<fetcher, interval, scheduled_id, timers, nextId, fetches, renders,
               display, errors, op, outcome>>

cfgVars == <<file, loaded, saved>>

vars == <<schedVars, cfgVars, validated, call>>

(***************************************************************************)
(* The cost sources, as the sets of results one call can give.  A snapshot *)
(* carries month_to_date in cents and the length of top_services.          *)
(***************************************************************************)
Raised == [raised |-> TRUE, month_to_date |-> 0, top_services |-> 0]

CostData(m, n) == [raised |-> FALSE, month_to_date |-> m, top_services |-> n]

\* random.uniform(10.0, 500.0) rounded to cents: sample totals
SimulatedTotals == {1000, 50000}

\* totals the billing API can report when at least one service has a cost
LiveTotals == {1, 9500}

fetch_simulated_costs ==
    {CostData(m, n) : m \in SimulatedTotals, n \in {SimMinServices, TopLimit}}

fetch_aws_costs ==
    {Raised, CostData(0, 0)} \cup {CostData(m, n) : m \in LiveTotals, n \in {1, TopLimit}}

Fetch(f) == IF f = "simulated" THEN fetch_simulated_costs ELSE fetch_aws_costs

(***************************************************************************)
(* AWSCostWidget.update_display: the cost label is set first; the service  *)
(* loop unpacks each (name, cost, activity) entry into two names, which    *)
(* raises on the first entry; only a snapshot with no entry reaches the    *)
(* timestamp label.                                                        *)
(***************************************************************************)
update_display(d, cost_data, now) ==
    IF cost_data.top_services > 0
    THEN [raised |-> TRUE,
          display |-> [d EXCEPT !.cost = cost_data.month_to_date]]
    ELSE [raised |-> FALSE,
          display |-> [cost |-> cost_data.month_to_date, rows |-> 0, stamp |-> now]]

(***************************************************************************)
(* config.py.  Amounts of money are in thousandths of a dollar, so 100.0   *)
(* is 100000 and the 0.01 tolerance of the round-trip test is 10.          *)
(***************************************************************************)
DEFAULT_BUDGET == 100000
DEFAULT_REFRESH_INTERVAL == 30
MIN_REFRESH_INTERVAL == 10
MAX_REFRESH_INTERVAL == 300

\* how far below MIN and above MAX the inputs of validate_refresh_interval go
InputSpan == 20

\* a JSON value (and the Python value json.load gives for it): t is its
\* kind, v its number, s its text
JVal(t, v, s) == [t |-> t, v |-> v, s |-> s]

JInt(n) == JVal("int", n, "")
JFloat(m) == JVal("float", m, "")
JBool(b) == JVal("bool", IF b THEN 1 ELSE 0, "")
JStr(s) == JVal("str", 0, s)
\* an integer literal beyond the range of a float, such as 1 followed by 400 zeros
JBigInt == JVal("bigint", 1000000000, "")
\* the literals Infinity (also 1e999) and NaN, which json.load accepts
JInf == JVal("inf", 0, "")
JNaN == JVal("nan", 0, "")
JNull == JVal("null", 0, "")
\* an array or an object as a value: v is its length
JList(n) == JVal("list", n, "")
JDict(n) == JVal("dict", n, "")
\* the key is not in the file
Missing == JVal("missing", 0, "")
\* the top-level value is a string or an array and `key in data` holds
Member == JVal("member", 0, "")

IntSamples == {0, 5, 45, 301}
FloatSamples == {-1500, 5, 45900}
StrSamples == {"", "abc", "45", "12.5", "inf"}

JsonValues ==
    {JInt(n) : n \in IntSamples} \cup {JFloat(m) : m \in FloatSamples}
    \cup {JStr(x) : x \in StrSamples} \cup {JBool(b) : b \in BOOLEAN}
    \cup {JBigInt, JInf, JNaN, JNull, JList(0), JList(1), JDict(1)}

\* the outcome of a conversion: a value, or the exception it raises
Ok(x) == [exc |-> "none", val |-> x]
Exc(e) == [exc |-> e, val |-> JNull]

\* int() rounds a float toward zero
Trunc(m) == IF m >= 0 THEN m \div 1000 ELSE -((-m) \div 1000)

\* float(x)
float(x) ==
    CASE x.t = "int" -> Ok(JFloat(x.v * 1000))
      [] x.t = "bigint" -> Exc("OverflowError")
      [] x.t \in {"float", "inf", "nan"} -> Ok(x)
      [] x.t = "bool" -> Ok(JFloat(x.v * 1000))
      [] x.t = "str" ->
            (CASE x.s = "45" -> Ok(JFloat(45000))
               [] x.s = "12.5" -> Ok(JFloat(12500))
               [] x.s = "inf" -> Ok(JInf)
               [] x.s = "nan" -> Ok(JNaN)
               [] OTHER -> Exc("ValueError"))
      [] OTHER -> Exc("TypeError")

\* int(x)
int(x) ==
    CASE x.t \in {"int", "bigint"} -> Ok(x.v)
      [] x.t = "float" -> Ok(Trunc(x.v))
      [] x.t = "inf" -> Exc("OverflowError")
      [] x.t = "nan" -> Exc("ValueError")
      [] x.t = "bool" -> Ok(x.v)
      [] x.t = "str" -> IF x.s = "45" THEN Ok(45) ELSE Exc("ValueError")
      [] OTHER -> Exc("TypeError")

\* bool(x)
bool(x) ==
    CASE x.t \in {"int", "float", "bool", "list", "dict"} -> x.v # 0
      [] x.t = "str" -> x.s # ""
      [] x.t = "null" -> FALSE
      [] OTHER -> TRUE

\* budget > 0 for a float
Positive(x) == (x.t = "float" /\ x.v > 0) \/ x.t = "inf"

Min(a, b) == IF a <= b THEN a ELSE b
Max(a, b) == IF a >= b THEN a ELSE b

\* the clamp with its two bounds swapped
validate_refresh_interval_swapped(i) ==
    Min(MIN_REFRESH_INTERVAL, Max(MAX_REFRESH_INTERVAL, i))

validate_refresh_interval(i) ==
    Max(MIN_REFRESH_INTERVAL, Min(MAX_REFRESH_INTERVAL, i))

WidgetConfig(b, i, u) == [budget |-> b, refresh_interval |-> i, use_simulated_data |-> u]

DefaultConfig == WidgetConfig(JFloat(DEFAULT_BUDGET), DEFAULT_REFRESH_INTERVAL, FALSE)

(***************************************************************************)
(* The config file.  kind is "absent" (os.path.exists is false),           *)
(* "unreadable" (open raises an OSError), "undecodable" (bytes that are no *)
(* text in the locale's encoding), "malformed" (text that is no JSON),     *)
(* "scalar" (a JSON number, true, false or null), "sequence" (a JSON       *)
(* string or array) or "object".                                           *)
(***************************************************************************)
File(k, b, i, u) == [kind |-> k, budget |-> b, refresh_interval |-> i, use_simulated_data |-> u]

FileContents ==
    {File(k, Missing, Missing, Missing) :
        k \in {"absent", "unreadable", "undecodable", "malformed", "scalar"}}
    \cup {File("sequence", b, i, u) : b \in {Missing, Member}, i \in {Missing, Member},
                                      u \in {Missing, Member}}
    \cup {File("object", b, i, u) : b \in JsonValues \cup {Missing},
                                    i \in JsonValues \cup {Missing},
                                    u \in JsonValues \cup {Missing}}

\* what a call gives: the exception that left it ("none" when it returned)
\* and the config it returned
Returned(c) == [raised |-> "none", config |-> c]
Threw(e) == [raised |-> e, config |-> DefaultConfig]

\* lines 61-67: the budget field
load_budget(data, config) ==
    IF data.budget = Missing THEN Returned(config)
    ELSE IF data.budget = Member THEN Returned(config)
    ELSE LET r == float(data.budget) IN
         IF r.exc \in {"ValueError", "TypeError"} THEN Returned(config)
         ELSE IF r.exc # "none" THEN Threw(r.exc)
         ELSE IF Positive(r.val) THEN Returned([config EXCEPT !.budget = r.val])
         ELSE Returned(config)

\* the refresh_interval field stored as converted, without the clamp
load_refresh_interval_unclamped(data, config) ==
    IF data.refresh_interval = Missing THEN Returned(config)
    ELSE IF data.refresh_interval = Member THEN Returned(config)
    ELSE LET r == int(data.refresh_interval) IN
         IF r.exc \in {"ValueError", "TypeError"} THEN Returned(config)
         ELSE IF r.exc # "none" THEN Threw(r.exc)
         ELSE Returned([config EXCEPT !.refresh_interval = r.val])

\* lines 70-75: the refresh_interval field
load_refresh_interval(data, config) ==
    IF data.refresh_interval = Missing THEN Returned(config)
    ELSE IF data.refresh_interval = Member THEN Returned(config)
    ELSE LET r == int(data.refresh_interval) IN
         IF r.exc \in {"ValueError", "TypeError"} THEN Returned(config)
         ELSE IF r.exc # "none" THEN Threw(r.exc)
         ELSE Returned([config EXCEPT
                           !.refresh_interval = validate_refresh_interval(r.val)])

\* lines 78-79: the use_simulated_data field
load_use_simulated_data(data, config) ==
    IF data.use_simulated_data = Missing THEN Returned(config)
    ELSE IF data.use_simulated_data = Member THEN Threw("TypeError")
    ELSE Returned([config EXCEPT !.use_simulated_data = bool(data.use_simulated_data)])

\* load_config: the outer except clause takes json.JSONDecodeError and
\* IOError only
load_config(f) ==
    CASE f.kind = "absent" -> Returned(DefaultConfig)
      [] f.kind = "unreadable" -> Returned(DefaultConfig)
      [] f.kind = "undecodable" -> Threw("UnicodeDecodeError")
      [] f.kind = "malformed" -> Returned(DefaultConfig)
      [] f.kind = "scalar" -> Threw("TypeError")
      [] OTHER ->
            LET b == load_budget(f, DefaultConfig) IN
            IF b.raised # "none" THEN b
            ELSE LET i == load_refresh_interval(f, b.config) IN
                 IF i.raised # "none" THEN i
                 ELSE load_use_simulated_data(f, i.config)

\* json.dump(config.to_dict(), f) without the use_simulated_data key
json_dump_without_flag(config) ==
    File("object", config.budget, JInt(config.refresh_interval), Missing)

\* json.dump(config.to_dict(), f, indent=4): the text written, as the
\* value json.load reads back from it
json_dump(config) ==
    File("object", config.budget, JInt(config.refresh_interval),
         JBool(config.use_simulated_data))

\* the configs a caller can construct: the dataclass checks nothing
BudgetSamples == {JFloat(m) : m \in {-1500, 0, 10, 12500, 250000}} \cup {JInf, JNaN}

RefreshSamples == {5, 10, 45, 300, 301}

Configs ==
    {WidgetConfig(b, i, u) : b \in BudgetSamples, i \in RefreshSamples, u \in BOOLEAN}

NotLoaded == [raised |-> "nocall", config |-> DefaultConfig]
NotSaved == [raised |-> "nocall", config |-> DefaultConfig, after |-> DefaultConfig,
             io |-> "none"]
NotValidated(i) == [called |-> FALSE, input |-> i, result |-> 0]

\* a call of load_config(config_path)
LoadConfig ==
    /\ loaded' = load_config(file)
    /\ UNCHANGED <<file, saved, validated, call, schedVars>>

\* save_config wrapped in the try/except of load_config: an I/O error is
\* absorbed and the call returns
save_config_swallowing(config, f, written) ==
    IF f.kind = "unreadable"
    THEN [raised |-> "none", after |-> config, file |-> f, io |-> "open_fails"]
    ELSE IF ~written
    THEN [raised |-> "none", after |-> config,
          file |-> File("malformed", Missing, Missing, Missing), io |-> "write_fails"]
    ELSE [raised |-> "none", after |-> config, file |-> json_dump(config), io |-> "ok"]

\* save_config(config, config_path) on the file f: open(config_path, 'w')
\* raises on a path that cannot be opened and nothing is written; a write
\* that fails (`written` false) raises from json.dump and leaves the
\* truncated file.  `after` is the config object when the call ends.
save_config(config, f, written) ==
    IF f.kind = "unreadable"
    THEN [raised |-> "OSError", after |-> config, file |-> f, io |-> "open_fails"]
    ELSE IF ~written
    THEN [raised |-> "OSError", after |-> config,
          file |-> File("malformed", Missing, Missing, Missing), io |-> "write_fails"]
    ELSE [raised |-> "none", after |-> config, file |-> json_dump(config), io |-> "ok"]

\* a call of save_config(config, config_path)
SaveConfig ==
    \E config \in Configs, written \in BOOLEAN :
        LET r == save_config(config, file, written) IN
        /\ saved' = [raised |-> r.raised, config |-> config, after |-> r.after,
                     io |-> r.io]
        /\ file' = r.file
        /\ loaded' = NotLoaded
        /\ UNCHANGED <<validated, call, schedVars>>

\* a call of validate_refresh_interval(validated.input)
ValidateRefreshInterval ==
    /\ ~validated.called
    /\ validated' = [validated EXCEPT !.called = TRUE,
                        !.result = validate_refresh_interval(validated.input)]
    /\ UNCHANGED <<cfgVars, call, schedVars>>

ConfigIdle ==
    /\ file = File("absent", Missing, Missing, Missing)
    /\ loaded = NotLoaded
    /\ saved = NotSaved

\* no pure function has been called
NoCall == [fn |-> "none", done |-> FALSE]

(***************************************************************************)
(* UpdateScheduler                                                         *)
(***************************************************************************)
\* schedule_update arming only while _scheduled_id is None: the handle of a
\* fired timer is never cleared, so the second cycle arms nothing
schedule_update_once(queue) ==
    IF scheduled_id = NoTimer
    THEN /\ timers' = queue \cup {[id |-> nextId, ms |-> interval]}
         /\ scheduled_id' = nextId
         /\ nextId' = nextId + 1
    ELSE /\ timers' = queue
         /\ UNCHANGED <<scheduled_id, nextId>>

\* schedule_update: root.after(self.interval, self.perform_update)
schedule_update(queue) ==
    /\ timers' = queue \cup {[id |-> nextId, ms |-> interval]}
    /\ scheduled_id' = nextId
    /\ nextId' = nextId + 1

\* the cycle with the re-arm inside the try block: a failure skips it
perform_update_rearm_in_try(queue) ==
    /\ fetches < MaxCycles
    /\ fetches' = fetches + 1
    /\ \E r \in Fetch(fetcher) :
          IF r.raised
          THEN /\ outcome' = "fetch_raised"
               /\ errors' = errors + 1
               /\ UNCHANGED <<renders, display>>
               /\ timers' = queue
               /\ UNCHANGED <<scheduled_id, nextId>>
          ELSE LET u == update_display(display, r, fetches + 1) IN
               /\ renders' = renders + 1
               /\ display' = u.display
               /\ outcome' = IF u.raised THEN "render_raised" ELSE "ok"
               /\ errors' = IF u.raised THEN errors + 1 ELSE errors
               /\ IF u.raised
                  THEN timers' = queue /\ UNCHANGED <<scheduled_id, nextId>>
                  ELSE schedule_update(queue)
    /\ UNCHANGED <<fetcher, interval>>

\* the cycle with the render outside the try block: it runs after a failed
\* fetch too, on no snapshot, and only restamps the display
perform_update_renders_on_failure(queue) ==
    /\ fetches < MaxCycles
    /\ fetches' = fetches + 1
    /\ \E r \in Fetch(fetcher) :
          IF r.raised
          THEN /\ outcome' = "fetch_raised"
               /\ errors' = errors + 1
               /\ renders' = renders + 1
               /\ display' = [display EXCEPT !.stamp = fetches + 1]
          ELSE LET u == update_display(display, r, fetches + 1) IN
               /\ renders' = renders + 1
               /\ display' = u.display
               /\ outcome' = IF u.raised THEN "render_raised" ELSE "ok"
               /\ errors' = IF u.raised THEN errors + 1 ELSE errors
    /\ schedule_update(queue)
    /\ UNCHANGED <<fetcher, interval>>

\* perform_update, run with `queue` the timers pending when it is entered
perform_update(queue) ==
    /\ fetches < MaxCycles
    /\ fetches' = fetches + 1
    /\ \E r \in Fetch(fetcher) :
          IF r.raised
          THEN /\ outcome' = "fetch_raised"
               /\ errors' = errors + 1
               /\ UNCHANGED <<renders, display>>
          ELSE LET u == update_display(display, r, fetches + 1) IN
               /\ renders' = renders + 1
               /\ display' = u.display
               /\ outcome' = IF u.raised THEN "render_raised" ELSE "ok"
               /\ errors' = IF u.raised THEN errors + 1 ELSE errors
    /\ schedule_update(queue)
    /\ UNCHANGED <<fetcher, interval>>

\* start() arming a timer without running a cycle first
start_schedules_only ==
    /\ nextId <= MaxCycles
    /\ op' = "start"
    /\ schedule_update(timers)
    /\ UNCHANGED <<fetcher, interval, fetches, renders, display, errors, outcome>>

\* start()
start ==
    /\ op' = "start"
    /\ perform_update(timers)

\* stop()
stop ==
    /\ op' = "stop"
    /\ IF scheduled_id # NoTimer
       THEN /\ timers' = {t \in timers : t.id # scheduled_id}
            /\ scheduled_id' = NoTimer
       ELSE UNCHANGED <<timers, scheduled_id>>
    /\ UNCHANGED <<fetcher, interval, nextId, fetches, renders, display, errors, outcome>>

\* the event loop fires a pending timer: its callback is perform_update
TimerFires ==
    \E t \in timers :
        /\ op' = "timer"
        /\ perform_update(timers \ {t})

\* refresh intervals a validated config can carry, in seconds
IntervalSamples == {10, 30, 300}

\* the interval kept in seconds, as it was passed
interval_in_seconds(i) == i

\* self.interval = interval * 1000: seconds to milliseconds
interval_in_ms(i) == i * 1000

\* UpdateScheduler.__init__(widget, fetcher, interval)
SchedulerInit(f, i) ==
    /\ fetcher = f
    /\ interval = interval_in_ms(i)
    /\ scheduled_id = NoTimer
    /\ timers = {}
    /\ nextId = 1
    /\ fetches = 0
    /\ renders = 0
    /\ display = [cost |-> 0, rows |-> 0, stamp |-> 0]
    /\ errors = 0
    /\ op = "init"
    /\ outcome = "none"

(***************************************************************************)
(* Spec: one scheduler, driven by start(), stop() and the event loop.      *)
(***************************************************************************)
Init ==
    /\ \E f \in {"simulated", "aws"}, i \in IntervalSamples : SchedulerInit(f, i)
    /\ ConfigIdle
    /\ validated = NotValidated(DEFAULT_REFRESH_INTERVAL)
    /\ call = NoCall

Start == start /\ UNCHANGED <<cfgVars, validated, call>>

Stop == stop /\ UNCHANGED <<cfgVars, validated, call>>

Timer == TimerFires /\ UNCHANGED <<cfgVars, validated, call>>

Next == Start \/ Stop \/ Timer

Spec == Init /\ [][Next]_vars

\* every pending timer eventually fires: the Tk event loop runs
FairSpec == Spec /\ WF_vars(Timer)

(***************************************************************************)
(* ValidateSpec: validate_refresh_interval on every integer around its     *)
(* range.                                                                  *)
(***************************************************************************)
ValidateInit ==
    /\ SchedulerInit("simulated", DEFAULT_REFRESH_INTERVAL)
    /\ ConfigIdle
    /\ \E i \in (MIN_REFRESH_INTERVAL - InputSpan)..(MAX_REFRESH_INTERVAL + InputSpan) :
           validated = NotValidated(i)
    /\ call = NoCall

ValidateNext == ValidateRefreshInterval

ValidateSpec == ValidateInit /\ [][ValidateNext]_vars

(***************************************************************************)
(* ConfigSpec: load_config and save_config on a config file of any         *)
(* content.                                                                *)
(***************************************************************************)
ConfigInit ==
    /\ SchedulerInit("simulated", DEFAULT_REFRESH_INTERVAL)
    /\ file \in FileContents
    /\ loaded = NotLoaded
    /\ saved = NotSaved
    /\ validated = NotValidated(DEFAULT_REFRESH_INTERVAL)
    /\ call = NoCall

ConfigNext == LoadConfig \/ SaveConfig

ConfigSpec == ConfigInit /\ [][ConfigNext]_vars

(***************************************************************************)
(* widget.py: the pure functions.  A percentage is in thousandths of a     *)
(* percent, so 75 is 75000 and 90.001 is 90001.                            *)
(***************************************************************************)
COLOR_GREEN == "#10B981"
COLOR_YELLOW == "#FBBF24"
COLOR_RED == "#EF4444"

\* how far below 0 and above 100 percent the inputs of get_budget_color go
PctSpan == 1000

\* get_budget_color with the upper comparison strict
get_budget_color_strict(percentage) ==
    IF percentage < 75000 THEN COLOR_GREEN
    ELSE IF percentage < 90000 THEN COLOR_YELLOW
    ELSE COLOR_RED

get_budget_color(percentage) ==
    IF percentage < 75000 THEN COLOR_GREEN
    ELSE IF percentage <= 90000 THEN COLOR_YELLOW
    ELSE COLOR_RED

\* everything but `call` stays as constructed
Quiet ==
    /\ SchedulerInit("simulated", DEFAULT_REFRESH_INTERVAL)
    /\ ConfigIdle
    /\ validated = NotValidated(DEFAULT_REFRESH_INTERVAL)

QuietStep == UNCHANGED <<schedVars, cfgVars, validated>>

(***************************************************************************)
(* ColorSpec: get_budget_color on every percentage of the grid.            *)
(***************************************************************************)
ColorInit ==
    /\ Quiet
    /\ \E p \in (0 - PctSpan)..(100000 + PctSpan) :
           call = [fn |-> "get_budget_color", done |-> FALSE, percentage |-> p,
                   result |-> ""]

GetBudgetColor ==
    /\ call.fn = "get_budget_color"
    /\ ~call.done
    /\ call' = [call EXCEPT !.done = TRUE, !.result = get_budget_color(call.percentage)]
    /\ QuietStep

ColorNext == GetBudgetColor

ColorSpec == ColorInit /\ [][ColorNext]_vars

(***************************************************************************)
(* cost_fetcher.py: get_top_services.  A service entry is a (name, cost)   *)
(* pair; costs are in cents.                                               *)
(***************************************************************************)
\* longest service list given to get_top_services
MaxLen == 4

ServiceNames == {"Amazon EC2", "Amazon S3"}
CostSamples == {0, 250, 4000}

Entry(n, c) == [name |-> n, cost |-> c]

Entries == {Entry(n, c) : n \in ServiceNames, c \in CostSamples}

ServiceLists == UNION {[1..k -> Entries] : k \in 0..MaxLen}

\* the limits tried: Python slices accept a negative bound too
Limits == (0 - 1)..(MaxLen + 1)

\* one step of a stable sort by cost, descending: x goes behind every entry
\* that costs at least as much
RECURSIVE InsertDescending(_, _)
InsertDescending(out, x) ==
    IF out = <<>> THEN <<x>>
    ELSE IF Head(out).cost >= x.cost
         THEN <<Head(out)>> \o InsertDescending(Tail(out), x)
         ELSE <<x>> \o out

\* sorted(services, key=lambda x: x[1], reverse=True): stable, so entries
\* of equal cost keep their input order
RECURSIVE sorted_reverse(_)
sorted_reverse(services) ==
    IF services = <<>> THEN <<>>
    ELSE InsertDescending(sorted_reverse(SubSeq(services, 1, Len(services) - 1)),
                          services[Len(services)])

\* one step of a stable sort by cost, ascending
RECURSIVE InsertAscending(_, _)
InsertAscending(out, x) ==
    IF out = <<>> THEN <<x>>
    ELSE IF Head(out).cost <= x.cost
         THEN <<Head(out)>> \o InsertAscending(Tail(out), x)
         ELSE <<x>> \o out

\* sorted(services, key=lambda x: x[1]): ascending
RECURSIVE sorted_ascending(_)
sorted_ascending(services) ==
    IF services = <<>> THEN <<>>
    ELSE InsertAscending(sorted_ascending(SubSeq(services, 1, Len(services) - 1)),
                         services[Len(services)])

Reversed(q) == [k \in 1..Len(q) |-> q[Len(q) + 1 - k]]

\* seq[:limit]
SliceTo(q, limit) ==
    IF limit >= 0 THEN SubSeq(q, 1, Min(limit, Len(q)))
    ELSE SubSeq(q, 1, Max(0, Len(q) + limit))

\* get_top_services without reverse=True
get_top_services_ascending(services, limit) ==
    SliceTo(sorted_ascending(services), limit)

\* get_top_services as sorted(...)[::-1][:limit]: ties come out in reverse
\* input order
get_top_services_flipped(services, limit) ==
    SliceTo(Reversed(sorted_ascending(services)), limit)

get_top_services(services, limit) == SliceTo(sorted_reverse(services), limit)

(***************************************************************************)
(* RankSpec: get_top_services on every list of up to MaxLen entries.       *)
(***************************************************************************)
RankInit ==
    /\ Quiet
    /\ \E q \in ServiceLists, l \in Limits :
           call = [fn |-> "get_top_services", done |-> FALSE, services |-> q,
                   limit |-> l, result |-> <<>>]

GetTopServices ==
    /\ call.fn = "get_top_services"
    /\ ~call.done
    /\ call' = [call EXCEPT !.done = TRUE,
                            !.result = get_top_services(call.services, call.limit)]
    /\ QuietStep

RankNext == GetTopServices

RankSpec == RankInit /\ [][RankNext]_vars

(***************************************************************************)
(* widget.py: clamp_position, in pixels.                                   *)
(***************************************************************************)
\* largest screen and widget side tried; positions go two pixels beyond
MaxSide == 3

\* clamp_position with the y bound taken from the screen's width
clamp_position_width_for_y(x, y, widget_width, widget_height, screen_width, screen_height) ==
    <<Max(0, Min(x, screen_width - widget_width)),
      Max(0, Min(y, screen_width - widget_height))>>

clamp_position(x, y, widget_width, widget_height, screen_width, screen_height) ==
    <<Max(0, Min(x, screen_width - widget_width)),
      Max(0, Min(y, screen_height - widget_height))>>

(***************************************************************************)
(* ClampSpec: clamp_position on every position, widget and screen size of  *)
(* the grid, screens smaller than the widget included.                     *)
(***************************************************************************)
ClampInit ==
    /\ Quiet
    /\ \E x \in (0 - 2)..(MaxSide + 2), y \in (0 - 2)..(MaxSide + 2),
          w \in 0..MaxSide, h \in 0..MaxSide, sw \in 0..MaxSide, sh \in 0..MaxSide :
           call = [fn |-> "clamp_position", done |-> FALSE, x |-> x, y |-> y,
                   widget_width |-> w, widget_height |-> h,
                   screen_width |-> sw, screen_height |-> sh, result |-> <<0, 0>>]

ClampPosition ==
    /\ call.fn = "clamp_position"
    /\ ~call.done
    /\ call' = [call EXCEPT !.done = TRUE,
                   !.result = clamp_position(call.x, call.y, call.widget_width,
                                             call.widget_height, call.screen_width,
                                             call.screen_height)]
    /\ QuietStep

ClampNext == ClampPosition

ClampSpec == ClampInit /\ [][ClampNext]_vars

(***************************************************************************)
(* cost_fetcher.py: fetch_simulated_costs.  Amounts before rounding are in *)
(* thousandths of a dollar, round(x, 2) turns them into cents.             *)
(***************************************************************************)
AWS_SERVICES ==
    <<"Amazon EC2", "Amazon S3", "Amazon RDS", "AWS Lambda",
      "Amazon CloudFront", "Amazon DynamoDB", "Amazon ECS",
      "Amazon SQS", "Amazon SNS", "AWS Fargate", "Amazon EKS",
      "Amazon ElastiCache", "Amazon Redshift", "AWS Glue">>

\* round(x, 2) of x thousandths, in cents: to nearest, halves to even
round2(x) ==
    LET q == x \div 10
        r == x % 10
    IN  IF r < 5 THEN q
        ELSE IF r > 5 THEN q + 1
        ELSE IF q % 2 = 0 THEN q ELSE q + 1

\* random.choices(population, k=k): draws with replacement
choices(population, k) ==
    {[j \in 1..k |-> population[((j * r) % Len(population)) + 1]] : r \in {4, 7}}

\* random.sample(population, k): k distinct members in some order; the
\* arrangements tried start at offset r and step through the population
sample(population, k) ==
    {[j \in 1..k |-> population[((j + r) % Len(population)) + 1]] : r \in {0, 9}}

\* random.uniform(10.0, 500.0): the totals drawn, in thousandths
TotalDraws == {10000, 363554, 500000}

\* random.uniform(0, remaining * 0.6): the share drawn, in percent of remaining
ShareDraws == {7, 60}

\* random.randint(0, 150): the activity count drawn
ActivityDraws == {0, 150}

\* lines 146-155: the shares of the services, in cents after rounding
RECURSIVE service_costs(_, _, _)
service_costs(selected, shares, remaining) ==
    IF Len(selected) = 1 THEN <<Entry(selected[1], round2(remaining))>>
    ELSE LET cost == (remaining * shares[1]) \div 100 IN
         <<Entry(selected[1], round2(cost))>>
            \o service_costs(Tail(selected), Tail(shares), remaining - cost)

\* lines 160-163 and 232-235: the activity count joined to each entry
with_activity(top, activity) ==
    [k \in 1..Len(top) |->
        [name |-> top[k].name, cost |-> top[k].cost, activity |-> activity]]

\* a CostData, or the exception raised instead of it
Snapshot(m, top) == [raised |-> "none", month_to_date |-> m, top_services |-> top]
Failure(e) == [raised |-> e, month_to_date |-> 0, top_services |-> <<>>]

\* fetch_simulated_costs for one outcome of its random draws
simulated_costs(mtd, selected, shares, activity) ==
    Snapshot(round2(mtd),
             with_activity(get_top_services(service_costs(selected, shares, mtd), TopLimit),
                           activity))

(***************************************************************************)
(* cost_fetcher.py: fetch_aws_costs.  The billing call either raises or    *)
(* answers with groups of (service name, amount in thousandths).           *)
(***************************************************************************)
Group(n, a) == [name |-> n, amount |-> a]

\* amounts the billing API can report for a service
AmountSamples == {0 - 500, 0, 4, 1234, 99999}

\* the answers tried: every answer of up to two groups, and answers of
\* eleven and twelve groups with amounts falling, rising or all equal
Responses ==
    UNION {[1..k -> {Group(AWS_SERVICES[j], a) : j \in {1, 2}, a \in AmountSamples}]
              : k \in 0..2}
    \cup {[k \in 1..n |-> Group(AWS_SERVICES[k], 100 * (n - k) - 50)] : n \in {11, 12}}
    \cup {[k \in 1..n |-> Group(AWS_SERVICES[k], 1000 * k + 4)] : n \in {11, 12}}
    \cup {[k \in 1..n |-> Group(AWS_SERVICES[k], 1234)] : n \in {11, 12}}

\* what client.get_cost_and_usage raises: whether the cause is the caller's
\* authentication, and whether the message has "credentials" (in any case)
\* or "NoCredentialsError" in it
ApiError(auth, mentions) == [auth |-> auth, mentions |-> mentions]

ApiErrors == {ApiError(a, m) : a \in BOOLEAN, m \in BOOLEAN}

\* fetch_service_activity: the count found for each name (at most
\* MaxResults=50 events), or 0 for every name when CloudTrail fails
ActivityOutcomes == {0, 50}

\* lines 217-223 without the cost > 0 test
RECURSIVE all_costs(_)
all_costs(groups) ==
    IF groups = <<>> THEN <<>>
    ELSE <<Entry(Head(groups).name, round2(Head(groups).amount))>>
            \o all_costs(Tail(groups))

\* lines 217-223: the groups with a positive amount, rounded to cents
RECURSIVE positive_costs(_)
positive_costs(groups) ==
    IF groups = <<>> THEN <<>>
    ELSE IF Head(groups).amount > 0
         THEN <<Entry(Head(groups).name, round2(Head(groups).amount))>>
                 \o positive_costs(Tail(groups))
         ELSE positive_costs(Tail(groups))

\* lines 215-223: total_cost, the sum of the positive amounts
RECURSIVE total_cost(_)
total_cost(groups) ==
    IF groups = <<>> THEN 0
    ELSE (IF Head(groups).amount > 0 THEN Head(groups).amount ELSE 0)
            + total_cost(Tail(groups))

\* lines 243-254: the exception fetch_aws_costs raises for a failure
classify(err) ==
    IF err.mentions THEN Failure("AWS credentials not found") ELSE Failure("reraised")

\* fetch_aws_costs for one outcome of its environment: boto3 installed or
\* not, the billing call raising `err` (when failed) or answering `groups`
aws_costs(installed, failed, err, groups, activity) ==
    IF ~installed THEN Failure("boto3 is required")
    ELSE IF failed THEN classify(err)
    ELSE Snapshot(round2(total_cost(groups)),
                  with_activity(get_top_services(positive_costs(groups), TopLimit),
                                activity))

(***************************************************************************)
(* FetchSpec: one call of either cost source, for every outcome of the     *)
(* random draws and of the billing API tried.                              *)
(***************************************************************************)
NoSnapshot == Failure("nocall")

SimulatedCalls ==
    {[fn |-> "fetch_simulated_costs", done |-> FALSE, mtd |-> m, selected |-> q,
      shares |-> h, activity |-> a, result |-> NoSnapshot] :
        m \in TotalDraws, a \in ActivityDraws,
        q \in UNION {sample(AWS_SERVICES, n) : n \in SimMinServices..TopLimit},
        h \in [1..(TopLimit - 1) -> ShareDraws]}

AwsCalls ==
    {[fn |-> "fetch_aws_costs", done |-> FALSE, installed |-> i, failed |-> f,
      err |-> e, groups |-> g, activity |-> a, result |-> NoSnapshot] :
        i \in BOOLEAN, f \in BOOLEAN, e \in ApiErrors, g \in Responses,
        a \in ActivityOutcomes}

FetchInit ==
    /\ Quiet
    /\ call \in SimulatedCalls \cup AwsCalls

FetchSimulatedCosts ==
    /\ call.fn = "fetch_simulated_costs"
    /\ ~call.done
    /\ call' = [call EXCEPT !.done = TRUE,
                   !.result = simulated_costs(call.mtd, call.selected, call.shares,
                                              call.activity)]
    /\ QuietStep

FetchAwsCosts ==
    /\ call.fn = "fetch_aws_costs"
    /\ ~call.done
    /\ call' = [call EXCEPT !.done = TRUE,
                   !.result = aws_costs(call.installed, call.failed, call.err,
                                        call.groups, call.activity)]
    /\ QuietStep

FetchNext == FetchSimulatedCosts \/ FetchAwsCosts

FetchSpec == FetchInit /\ [][FetchNext]_vars

(***************************************************************************)
(* main.py: main(), from the config load_config returned to the event      *)
(* loop.  pc is the statement main() is at: "select" (line 46), "widget"   *)
(* (line 70), "start" (line 77), "running" (widget.run()) or "exited".     *)
(***************************************************************************)
\* lines 46-66 with the fallback missing: the live source is kept after the
\* probe failed
select_fetcher_keeps_live(use_simulated_data, probe) ==
    IF use_simulated_data
    THEN [fetcher |-> "simulated", probes |-> 0, dialogs |-> <<>>]
    ELSE IF probe.raised
         THEN [fetcher |-> "aws", probes |-> 1, dialogs |-> <<"AWS Credentials Error">>]
         ELSE [fetcher |-> "aws", probes |-> 1, dialogs |-> <<>>]

\* lines 46-66: the fetcher chosen, the fetch_aws_costs() calls made to
\* choose it and the error dialogs shown; `probe` is what the one
\* fetch_aws_costs() call gives
select_fetcher(use_simulated_data, probe) ==
    IF use_simulated_data
    THEN [fetcher |-> "simulated", probes |-> 0, dialogs |-> <<>>]
    ELSE IF probe.raised
         THEN [fetcher |-> "simulated", probes |-> 1,
               dialogs |-> <<"AWS Credentials Error">>]
         ELSE [fetcher |-> "aws", probes |-> 1, dialogs |-> <<>>]

\* no UpdateScheduler has been constructed yet
NoScheduler == SchedulerInit("unset", 0)

\* calls of fetch_aws_costs one cycle of a scheduler holding fetcher f makes
LiveCalls(f) == IF f = "aws" THEN 1 ELSE 0

StartupInit ==
    /\ NoScheduler
    /\ ConfigIdle
    /\ validated = NotValidated(DEFAULT_REFRESH_INTERVAL)
    /\ \E u \in BOOLEAN, i \in IntervalSamples :
          call = [fn |-> "main", pc |-> "select", use_simulated_data |-> u,
                  refresh_interval |-> i, fetcher |-> "unset", probes |-> 0,
                  probe_raised |-> FALSE, live_calls |-> 0, dialogs |-> <<>>,
                  exit_code |-> 0]

\* lines 46-66
SelectFetcher ==
    /\ call.fn = "main"
    /\ call.pc = "select"
    /\ \E probe \in fetch_aws_costs :
          LET s == select_fetcher(call.use_simulated_data, probe) IN
          call' = [call EXCEPT !.pc = "widget", !.fetcher = s.fetcher,
                                !.probes = s.probes,
                                !.probe_raised = (s.probes > 0 /\ probe.raised),
                                !.live_calls = s.probes, !.dialogs = s.dialogs]
    /\ UNCHANGED <<schedVars, cfgVars, validated>>

\* lines 69-76: AWSCostWidget(config) raises and main exits with status 1,
\* or the widget is there and UpdateScheduler is constructed on it
CreateWidget ==
    /\ call.fn = "main"
    /\ call.pc = "widget"
    /\ \E created \in BOOLEAN :
          IF created
          THEN /\ call' = [call EXCEPT !.pc = "start"]
               /\ fetcher' = call.fetcher
               /\ interval' = interval_in_ms(call.refresh_interval)
               /\ UNCHANGED <<scheduled_id, timers, nextId, fetches, renders, display,
                              errors, op, outcome>>
          ELSE /\ call' = [call EXCEPT !.pc = "exited", !.exit_code = 1,
                                        !.dialogs = Append(@, "Widget Error")]
               /\ UNCHANGED schedVars
    /\ UNCHANGED <<cfgVars, validated>>

\* line 77: scheduler.start()
StartScheduler ==
    /\ call.fn = "main"
    /\ call.pc = "start"
    /\ start
    /\ call' = [call EXCEPT !.pc = "running", !.live_calls = @ + LiveCalls(fetcher)]
    /\ UNCHANGED <<cfgVars, validated>>

\* line 84: widget.run(), the event loop firing the scheduler's timers
EventLoop ==
    /\ call.fn = "main"
    /\ call.pc = "running"
    /\ TimerFires
    /\ call' = [call EXCEPT !.live_calls = @ + LiveCalls(fetcher)]
    /\ UNCHANGED <<cfgVars, validated>>

StartupNext == SelectFetcher \/ CreateWidget \/ StartScheduler \/ EventLoop

StartupSpec == StartupInit /\ [][StartupNext]_vars

(***************************************************************************)
(* cost_fetcher.py: format_currency.  The amount is in thousandths of a    *)
(* dollar; the string returned is the sequence of its characters.          *)
(***************************************************************************)
\* amounts from 0 to AmountSpan thousandths are formatted, one by one
AmountSpan == 1200

DigitChars == <<"0", "1", "2", "3", "4", "5", "6", "7", "8", "9">>

\* the decimal digits of a natural number
RECURSIVE decimal(_)
decimal(n) ==
    IF n < 10 THEN <<DigitChars[n + 1]>>
    ELSE decimal(n \div 10) \o <<DigitChars[(n % 10) + 1]>>

\* f"{amount:.1f}": one digit after the point
fixed1(amount) ==
    LET m == IF amount < 0 THEN 0 - amount ELSE amount
        tenths == (m + 50) \div 100
    IN  (IF amount < 0 THEN <<"-">> ELSE <<>>)
           \o decimal(tenths \div 10) \o <<".", DigitChars[(tenths % 10) + 1]>>

\* f"{amount:.2f}": the sign, the whole part, the point and two digits
fixed2(amount) ==
    LET m == IF amount < 0 THEN 0 - amount ELSE amount
        cents == round2(m)
    IN  (IF amount < 0 THEN <<"-">> ELSE <<>>)
           \o decimal(cents \div 100)
           \o <<".", DigitChars[((cents \div 10) % 10) + 1], DigitChars[(cents % 10) + 1]>>

\* the amount formatted with one decimal place
format_currency_one_decimal(amount) == <<"$">> \o fixed1(amount)

\* format_currency(amount): f"${amount:.2f}"
format_currency(amount) == <<"$">> \o fixed2(amount)

\* the amounts formatted: every one up to AmountSpan, a few below zero, and
\* those of the unit tests and larger ones
Amounts ==
    ((0 - 15)..AmountSpan) \cup {10999, 100000, 123456, 999995, 1000000000}

FormatInit ==
    /\ Quiet
    /\ \E a \in Amounts :
          call = [fn |-> "format_currency", done |-> FALSE, amount |-> a,
                  result |-> <<>>]

FormatCurrency ==
    /\ call.fn = "format_currency"
    /\ ~call.done
    /\ call' = [call EXCEPT !.done = TRUE, !.result = format_currency(call.amount)]
    /\ QuietStep

FormatNext == FormatCurrency

FormatSpec == FormatInit /\ [][FormatNext]_vars

(***************************************************************************)
(* BootSpec: main() from the config file on: load_config(config_path),     *)
(* then the steps of StartupSpec.  pc is "load" (line 43) before the       *)
(* config is loaded and "crashed" when load_config raised.                 *)
(***************************************************************************)
\* the config files main() is started on: no object, and every object with
\* a refresh_interval of each kind
BootFiles ==
    {File(k, Missing, Missing, Missing) :
        k \in {"absent", "unreadable", "undecodable", "malformed", "scalar"}}
    \cup {File("sequence", Missing, i, Missing) : i \in {Missing, Member}}
    \cup {File("object", Missing, i, u) : i \in JsonValues \cup {Missing},
                                          u \in {Missing, JBool(TRUE)}}

BootInit ==
    /\ NoScheduler
    /\ file \in BootFiles
    /\ loaded = NotLoaded
    /\ saved = NotSaved
    /\ validated = NotValidated(DEFAULT_REFRESH_INTERVAL)
    /\ call = [fn |-> "main", pc |-> "load", use_simulated_data |-> FALSE,
               refresh_interval |-> 0, fetcher |-> "unset", probes |-> 0,
               probe_raised |-> FALSE, live_calls |-> 0, dialogs |-> <<>>,
               exit_code |-> 0]

\* line 43: config = load_config(config_path); an exception it raises ends
\* main with a traceback
BootLoad ==
    /\ call.fn = "main"
    /\ call.pc = "load"
    /\ loaded' = load_config(file)
    /\ call' = IF loaded'.raised = "none"
               THEN [call EXCEPT !.pc = "select",
                        !.use_simulated_data = loaded'.config.use_simulated_data,
                        !.refresh_interval = loaded'.config.refresh_interval]
               ELSE [call EXCEPT !.pc = "crashed", !.exit_code = 1]
    /\ UNCHANGED <<file, saved, validated, schedVars>>

BootNext == BootLoad \/ SelectFetcher \/ CreateWidget \/ StartScheduler \/ EventLoop

BootSpec == BootInit /\ [][BootNext]_vars

(***************************************************************************)
(* widget.py: dragging the window by its header.  The window is the        *)
(* position of its top-left corner, the pointer offset start_drag stored   *)
(* and the size of the screen.                                             *)
(***************************************************************************)
WIDGET_WIDTH == 320
WIDGET_HEIGHT == 380

Window(x, y, sx, sy, sw, sh) ==
    [x |-> x, y |-> y, drag_start_x |-> sx, drag_start_y |-> sy,
     screen_width |-> sw, screen_height |-> sh]

\* start_drag(event)
start_drag(w, event_x, event_y) ==
    [w EXCEPT !.drag_start_x = event_x, !.drag_start_y = event_y]

\* do_drag moving the window to the pointer without clamp_position
do_drag_unclamped(w, event_x, event_y) ==
    [w EXCEPT !.x = w.x + (event_x - w.drag_start_x),
              !.y = w.y + (event_y - w.drag_start_y)]

\* do_drag(event)
do_drag(w, event_x, event_y) ==
    LET x == w.x + (event_x - w.drag_start_x)
        y == w.y + (event_y - w.drag_start_y)
        p == clamp_position(x, y, WIDGET_WIDTH, WIDGET_HEIGHT,
                            w.screen_width, w.screen_height)
    IN  [w EXCEPT !.x = p[1], !.y = p[2]]

\* pointer offsets the events carry, relative to the header
PointerOffsets == {0 - 500, 0, 100, 300}

\* screens: smaller than the widget, exactly its size, and a desktop
Screens == {<<200, 200>>, <<320, 380>>, <<1920, 1080>>}

\* where the window is before the first event: where __init__ put it
\* (lines 93-95) or where something else moved it, off the screen included
StartPositions(sw, sh) ==
    {<<sw - WIDGET_WIDTH - 30, sh - WIDGET_HEIGHT - 80>>, <<0 - 200, 2000>>,
     <<2000, 0 - 200>>}

DragInit ==
    /\ Quiet
    /\ \E scr \in Screens : \E pos \in StartPositions(scr[1], scr[2]) :
          call = [fn |-> "drag", moved |-> FALSE,
                  window |-> Window(pos[1], pos[2], 0, 0, scr[1], scr[2])]

\* <Button-1> on the header
StartDrag ==
    /\ call.fn = "drag"
    /\ \E ex \in PointerOffsets, ey \in PointerOffsets :
          call' = [call EXCEPT !.window = start_drag(call.window, ex, ey)]
    /\ QuietStep

\* <B1-Motion> on the header
DoDrag ==
    /\ call.fn = "drag"
    /\ \E ex \in PointerOffsets, ey \in PointerOffsets :
          call' = [call EXCEPT !.moved = TRUE,
                               !.window = do_drag(call.window, ex, ey)]
    /\ QuietStep

DragNext == StartDrag \/ DoDrag

DragSpec == DragInit /\ [][DragNext]_vars

(***************************************************************************)
(* Claims about the scheduler.                                             *)
(***************************************************************************)
\* C1: at most one timer is outstanding (scheduled, neither fired nor
\* cancelled) at any time, after any sequence of start(), stop() and timer
\* firings.
AtMostOneTimerOutstanding == Cardinality(timers) <= 1

\* C2: every update cycle, whether the fetch returned, the fetch raised or
\* the render raised, ends by arming one new timer whose delay is the
\* scheduler's interval, and that timer is the one _scheduled_id names.
CycleAlwaysRearms ==
    [][fetches' # fetches =>
         /\ Cardinality(timers' \ timers) = 1
         /\ \E t \in timers' \ timers :
               /\ t.id = scheduled_id'
               /\ t.ms = interval'
               /\ \E i \in IntervalSamples : t.ms = 1000 * i]_vars

\* a timer callback whose fetch raised has left its successor pending
RearmedAfterFetchRaised ==
    /\ op = "timer"
    /\ outcome = "fetch_raised"
    /\ \E t \in timers : t.id = scheduled_id /\ t.ms = interval

\* C3: after stop() returns the scheduler is Idle: no timer is pending.
StopLeavesIdle == op = "stop" => timers = {}

\* C4: start() on an Idle scheduler (no pending timer) runs exactly one
\* cycle within the call, consuming no timer, and leaves exactly one
\* pending timer, the one _scheduled_id names.
StartRunsOneCycleThenArmed ==
    [][(op' = "start" /\ timers = {}) =>
         /\ fetches' = fetches + 1
         /\ renders' \in {renders, renders + 1}
         /\ outcome' \in {"ok", "fetch_raised", "render_raised"}
         /\ timers' = {[id |-> scheduled_id', ms |-> interval]}
         /\ scheduled_id' # NoTimer]_vars

\* start() has run again on a scheduler that stop() had made Idle
RestartedFromIdle ==
    /\ op = "start"
    /\ fetches >= 2
    /\ Cardinality(timers) = 1

\* C5: while the scheduler is started and not stopped (_scheduled_id is not
\* None), a further fetch is eventually attempted, whatever failed before;
\* every pending timer is assumed to fire eventually (FairSpec).
FetchEventuallyAttempted ==
    \A n \in 0..(MaxCycles - 1) :
        []((scheduled_id # NoTimer /\ fetches = n)
              => <>(scheduled_id = NoTimer \/ fetches > n))

\* a timer-driven fetch made after two earlier cycles had failed
FetchAfterTwoFailures ==
    /\ op = "timer"
    /\ errors >= 2
    /\ fetches >= 3
    /\ scheduled_id # NoTimer

(***************************************************************************)
(* Claims about config.py.                                                 *)
(***************************************************************************)
\* C6: for every integer i, validate_refresh_interval(i) is i clamped to
\* [10,300]: i when 10 <= i <= 300, 10 when i < 10, 300 when i > 300, so
\* the result is always within [10,300].
ValidateClampsToRange ==
    validated.called =>
        /\ validated.result =
              (IF validated.input < 10 THEN 10
               ELSE IF validated.input > 300 THEN 300
               ELSE validated.input)
        /\ 10 <= validated.result
        /\ validated.result <= 300

\* an interval above the range has been validated down to 300
ValidatedAboveRange ==
    /\ validated.called
    /\ validated.input > 300
    /\ validated.result = 300

\* C7: for every content of the config file, load_config returns a
\* WidgetConfig whose refresh_interval is within [10,300] and whose budget
\* is positive.
LoadReturnsValidConfig ==
    loaded.raised # "nocall" =>
        /\ loaded.raised = "none"
        /\ loaded.config.refresh_interval \in 10..300
        /\ Positive(loaded.config.budget)

\* C8: load_config does not raise and returns {budget: 100.0,
\* refresh_interval: 30, use_simulated_data: false} when the file is
\* absent, unreadable, or its content is not valid structured data.
LoadDefaultsOnBadFile ==
    (loaded.raised # "nocall"
        /\ file.kind \in {"absent", "unreadable", "undecodable", "malformed"}) =>
        /\ loaded.raised = "none"
        /\ loaded.config = WidgetConfig(JFloat(100000), 30, FALSE)

\* the value C9 expects in a field: the converted value when the field's
\* conversion accepts what the file holds and the result is in the field's
\* domain, and the default otherwise
ExpectedBudget(x) ==
    IF x = Missing THEN JFloat(100000)
    ELSE IF float(x).exc = "none" /\ Positive(float(x).val) THEN float(x).val
    ELSE JFloat(100000)

ExpectedRefreshInterval(x) ==
    IF x = Missing \/ int(x).exc # "none" THEN 30
    ELSE IF int(x).val < 10 THEN 10
    ELSE IF int(x).val > 300 THEN 300
    ELSE int(x).val

ExpectedUseSimulatedData(x) == IF x = Missing THEN FALSE ELSE bool(x)

\* C9: when the file parses to an object, the three fields are validated
\* independently: a malformed or out-of-domain value leaves its field at
\* the default and the other fields still get their valid values.
FieldsValidatedIndependently ==
    (loaded.raised # "nocall" /\ file.kind = "object") =>
        /\ loaded.raised = "none"
        /\ loaded.config.budget = ExpectedBudget(file.budget)
        /\ loaded.config.refresh_interval = ExpectedRefreshInterval(file.refresh_interval)
        /\ loaded.config.use_simulated_data =
              ExpectedUseSimulatedData(file.use_simulated_data)

\* the round trip of `saved.config`: budget within 0.01, the rest equal
RoundTripEquivalent ==
    /\ loaded.raised = "none"
    /\ loaded.config.budget.t = "float"
    /\ saved.config.budget.t = "float"
    /\ loaded.config.budget.v - saved.config.budget.v < 10
    /\ saved.config.budget.v - loaded.config.budget.v < 10
    /\ loaded.config.refresh_interval = saved.config.refresh_interval
    /\ loaded.config.use_simulated_data = saved.config.use_simulated_data

\* C10 as stated: for every config, save_config followed by load_config
\* yields an equivalent config.
RoundTripAnyConfig ==
    (saved.raised = "none" /\ loaded.raised # "nocall") => RoundTripEquivalent

\* C10 amended: for every config whose budget is a finite positive number
\* and whose refresh_interval is within [10,300], whatever the file held
\* before, save_config followed by load_config yields an equivalent config.
RoundTripValidConfig ==
    (/\ saved.raised = "none"
     /\ loaded.raised # "nocall"
     /\ saved.config.budget.t = "float"
     /\ saved.config.budget.v > 0
     /\ saved.config.refresh_interval \in 10..300) => RoundTripEquivalent

\* a valid non-default config has been saved and loaded back unchanged
RoundTripDone ==
    /\ saved.raised = "none"
    /\ saved.config = WidgetConfig(JFloat(12500), 300, TRUE)
    /\ loaded = [raised |-> "none", config |-> saved.config]

\* C11: when the file holds only a refresh_interval key with an integer
\* value v, load_config returns refresh_interval = v clamped to [10,300]
\* with budget 100.0 and use_simulated_data false.
OnlyIntervalKeyClamped ==
    (/\ loaded.raised # "nocall"
     /\ file.kind = "object"
     /\ file.budget = Missing
     /\ file.use_simulated_data = Missing
     /\ file.refresh_interval.t \in {"int", "bigint"}) =>
        /\ loaded.raised = "none"
        /\ loaded.config.refresh_interval =
              (IF file.refresh_interval.v < 10 THEN 10
               ELSE IF file.refresh_interval.v > 300 THEN 300
               ELSE file.refresh_interval.v)
        /\ loaded.config.budget = JFloat(100000)
        /\ loaded.config.use_simulated_data = FALSE

\* the file {"refresh_interval": 5} has been loaded as 10 with the defaults
LoadedIntervalFive ==
    /\ file = File("object", Missing, JInt(5), Missing)
    /\ loaded = Returned(WidgetConfig(JFloat(100000), 10, FALSE))

(***************************************************************************)
(* Claims about widget.py and cost_fetcher.py.                             *)
(***************************************************************************)
\* C12: get_budget_color maps every percentage, negative and above 100
\* included, to exactly one colour: green below 75, yellow from 75 to 90
\* inclusive, red above 90.
BudgetColorBands ==
    (call.fn = "get_budget_color" /\ call.done) =>
        /\ call.result \in {"#10B981", "#FBBF24", "#EF4444"}
        /\ (call.percentage < 75000) <=> (call.result = "#10B981")
        /\ (75000 <= call.percentage /\ call.percentage <= 90000)
              <=> (call.result = "#FBBF24")
        /\ (call.percentage > 90000) <=> (call.result = "#EF4444")

\* exactly 90 percent has been classified yellow
NinetyIsYellow ==
    /\ call.fn = "get_budget_color"
    /\ call.done
    /\ call.percentage = 90000
    /\ call.result = "#FBBF24"

\* how often entry e occurs in sequence q
Occurrences(q, e) == Cardinality({k \in 1..Len(q) : q[k] = e})

\* the result is ordered by cost non-increasing, holds only unmodified
\* input entries, none more often than the input does, and every entry
\* when the limit is at least the length of the input
RankedFromInput ==
    /\ \A k \in 1..(Len(call.result) - 1) : call.result[k].cost >= call.result[k + 1].cost
    /\ \A k \in 1..Len(call.result) :
          /\ \E j \in 1..Len(call.services) : call.services[j] = call.result[k]
          /\ Occurrences(call.result, call.result[k])
                <= Occurrences(call.services, call.result[k])
    /\ call.limit >= Len(call.services) => Len(call.result) = Len(call.services)
    /\ call.services = <<>> => call.result = <<>>

\* C13 as stated: for every list and every limit the result has at most
\* `limit` entries and is ranked from the input.
TopServicesAnyLimit ==
    (call.fn = "get_top_services" /\ call.done) =>
        (Len(call.result) <= call.limit /\ RankedFromInput)

\* C13 amended: for every list and every limit >= 0 the result has at most
\* `limit` entries, all entries when limit >= the list's length, none for
\* an empty list, ordered by cost non-increasing, each an unmodified input
\* entry occurring no more often than in the input.
TopServicesNonNegativeLimit ==
    (call.fn = "get_top_services" /\ call.done /\ call.limit >= 0) =>
        (Len(call.result) <= call.limit /\ RankedFromInput)

\* a list of four entries has been cut to its two dearest
FourCutToTwo ==
    /\ call.fn = "get_top_services"
    /\ call.done
    /\ Len(call.services) = 4
    /\ call.limit = 2
    /\ Len(call.result) = 2
    /\ call.result[1].cost > call.result[2].cost
    /\ call.services[1].cost < call.services[4].cost

\* the index of the dearest entry of q, the earliest one among equals
Dearest(q) ==
    CHOOSE j \in 1..Len(q) :
        /\ \A k \in 1..Len(q) : q[k].cost <= q[j].cost
        /\ \A k \in 1..(j - 1) : q[k].cost < q[j].cost

Without(q, j) == SubSeq(q, 1, j - 1) \o SubSeq(q, j + 1, Len(q))

\* the n highest-cost entries of q, ties broken by input order: take the
\* dearest, earliest entry n times
RECURSIVE HighestByInputOrder(_, _)
HighestByInputOrder(q, n) ==
    IF n = 0 \/ q = <<>> THEN <<>>
    ELSE <<q[Dearest(q)]>> \o HighestByInputOrder(Without(q, Dearest(q)), n - 1)

\* C14: get_top_services returns the highest-cost entries with ties broken
\* by input order: no omitted entry costs more than a returned one, equal
\* costs keep their input order, and of a tie across the cut-off the
\* earlier entry is kept.
TiesByInputOrder ==
    (call.fn = "get_top_services" /\ call.done) =>
        /\ call.result = HighestByInputOrder(call.services, Len(call.result))
        /\ \A j \in 1..Len(call.services) :
              Occurrences(call.result, call.services[j])
                    < Occurrences(call.services, call.services[j])
                 => \A k \in 1..Len(call.result) :
                       call.result[k].cost >= call.services[j].cost

\* two entries of equal cost straddled the cut-off and the earlier was kept
TieAtCutOff ==
    /\ call.fn = "get_top_services"
    /\ call.done
    /\ call.limit = 1
    /\ Len(call.services) = 2
    /\ call.services[1].cost = call.services[2].cost
    /\ call.services[1].name # call.services[2].name
    /\ call.result = <<call.services[1]>>

\* C15: when the widget is no larger than the screen, each coordinate
\* clamp_position returns is the input coordinate clamped to its range:
\* unchanged inside [0, screen - widget], 0 below it, screen - widget above
\* it; so both results lie within their ranges.
ClampedIntoScreen ==
    (/\ call.fn = "clamp_position"
     /\ call.done
     /\ call.widget_width <= call.screen_width
     /\ call.widget_height <= call.screen_height) =>
        /\ call.result[1] =
              (IF call.x < 0 THEN 0
               ELSE IF call.x > call.screen_width - call.widget_width
                    THEN call.screen_width - call.widget_width
               ELSE call.x)
        /\ call.result[2] =
              (IF call.y < 0 THEN 0
               ELSE IF call.y > call.screen_height - call.widget_height
                    THEN call.screen_height - call.widget_height
               ELSE call.y)
        /\ 0 <= call.result[1]
        /\ call.result[1] <= call.screen_width - call.widget_width
        /\ 0 <= call.result[2]
        /\ call.result[2] <= call.screen_height - call.widget_height

\* a position right of the screen and above it has been pulled to the edges
ClampedAtBothEdges ==
    /\ call.fn = "clamp_position"
    /\ call.done
    /\ call.widget_width < call.screen_width
    /\ call.widget_height < call.screen_height
    /\ call.screen_width # call.screen_height
    /\ call.x > call.screen_width - call.widget_width
    /\ call.y < 0
    /\ call.result = <<call.screen_width - call.widget_width, 0>>

(***************************************************************************)
(* Claims about the cost sources (FetchSpec).                              *)
(***************************************************************************)
SimulatedDone == call.fn = "fetch_simulated_costs" /\ call.done

LiveDone == call.fn = "fetch_aws_costs" /\ call.done

Catalog == {AWS_SERVICES[k] : k \in 1..Len(AWS_SERVICES)}

RECURSIVE SumCosts(_)
SumCosts(top) == IF top = <<>> THEN 0 ELSE Head(top).cost + SumCosts(Tail(top))

\* C16: every snapshot of the simulated source has a month-to-date total
\* between $10.00 and $500.00 and between 5 and 10 service entries, whose
\* names are pairwise distinct members of the catalog of 14 service names.
SimulatedWithinCatalog ==
    SimulatedDone =>
        LET r == call.result
            top == r.top_services
        IN  /\ r.raised = "none"
            /\ r.month_to_date >= 1000
            /\ r.month_to_date <= 50000
            /\ Len(top) >= SimMinServices
            /\ Len(top) <= TopLimit
            /\ \A j, k \in 1..Len(top) : j # k => top[j].name # top[k].name
            /\ \A k \in 1..Len(top) : top[k].name \in Catalog
            /\ Cardinality(Catalog) = 14

\* C16 witness: a simulated snapshot of ten services with the largest total
SimulatedTenServices ==
    /\ SimulatedDone
    /\ Len(call.result.top_services) = TopLimit
    /\ call.result.month_to_date = 50000

\* C17: in every simulated snapshot the costs of the services sum to the
\* month-to-date total exactly.
SimulatedSumsToTotal ==
    SimulatedDone => SumCosts(call.result.top_services) = call.result.month_to_date

FailuresClassified ==
    LiveDone =>
        /\ ~call.installed => call.result.raised = "boto3 is required"
        /\ (call.installed /\ call.failed /\ call.err.auth) =>
               call.result.raised = "AWS credentials not found"
        /\ (call.installed /\ call.failed) => call.result.raised # "none"

(***************************************************************************)
(* Claims about startup (StartupSpec).                                     *)
(***************************************************************************)
ProbeDialogs ==
    Cardinality({k \in 1..Len(call.dialogs) : call.dialogs[k] = "AWS Credentials Error"})

\* C19: the scheduler is handed the live source only if use_simulated_data
\* is false and the one startup probe succeeded; after a failed probe the
\* user has been shown one error dialog about it, the simulated source is
\* used and startup goes on to the widget and the scheduler (main exits
\* only when the widget cannot be created); with use_simulated_data true
\* the live source is never called.
StartupSourceSelected ==
    call.fn = "main" =>
        /\ call.probes <= 1
        /\ call.pc \in {"start", "running"} => fetcher = call.fetcher
        /\ (call.pc # "select" /\ call.fetcher = "aws") =>
               (~call.use_simulated_data /\ call.probes = 1 /\ ~call.probe_raised)
        /\ call.probe_raised =>
               /\ ProbeDialogs = 1
               /\ call.fetcher = "simulated"
               /\ call.pc \in {"widget", "start", "running"}
                     \/ (call.pc = "exited"
                            /\ call.dialogs[Len(call.dialogs)] = "Widget Error")
        /\ ~call.probe_raised => ProbeDialogs = 0
        /\ call.use_simulated_data => call.live_calls = 0

\* C19 witness: the probe failed and the scheduler has run two cycles on
\* the simulated source
RunningOnFallback ==
    /\ call.fn = "main"
    /\ call.pc = "running"
    /\ call.probe_raised
    /\ fetcher = "simulated"
    /\ fetches >= 2

(***************************************************************************)
(* Claims about the live source, the render step and the cycle.            *)
(***************************************************************************)
\* C21: every service entry of a CostData returned by fetch_aws_costs has
\* a cost strictly greater than 0, and a service the billing API reports
\* with a cost of 0 or less is absent from it.
LiveKeepsOnlyPositiveCosts ==
    (LiveDone /\ call.result.raised = "none") =>
        LET top == call.result.top_services
        IN  /\ \A k \in 1..Len(top) : top[k].cost > 0
            /\ \A g \in 1..Len(call.groups) :
                  (call.groups[g].amount <= 0
                      /\ \A h \in 1..Len(call.groups) :
                            call.groups[h].name = call.groups[g].name
                                => call.groups[h].amount <= 0)
                  => \A k \in 1..Len(top) : top[k].name # call.groups[g].name

\* C24: a cycle whose fetch succeeded renders to completion, whatever the
\* snapshot: update_display does not raise, and the total, the service rows
\* and the timestamp shown are those of the cycle's snapshot.
RenderRunsToCompletion ==
    (op \in {"start", "timer"} /\ outcome # "fetch_raised") =>
        /\ outcome = "ok"
        /\ display.stamp = fetches
        /\ \E r \in Fetch(fetcher) :
              /\ ~r.raised
              /\ display.cost = r.month_to_date
              /\ display.rows = r.top_services

SaveRaisesIoErrors ==
    saved.raised # "nocall" =>
        /\ saved.io \in {"open_fails", "write_fails"} <=> saved.raised = "OSError"
        /\ saved.io = "ok" <=> saved.raised = "none"
        /\ saved.after = saved.config
        /\ saved.io = "open_fails" => file.kind = "unreadable"

\* C22 witness: a save on a path that cannot be opened has raised
SaveOnUnwritablePath ==
    /\ saved.raised = "OSError"
    /\ saved.io = "open_fails"
    /\ file.kind = "unreadable"

DigitValue(ch) == CHOOSE d \in 0..9 : DigitChars[d + 1] = ch

IsDigit(ch) == \E d \in 0..9 : DigitChars[d + 1] = ch

\* the number a sequence of digits writes
RECURSIVE NumberOf(_)
NumberOf(digits) ==
    IF digits = <<>> THEN 0
    ELSE 10 * NumberOf(SubSeq(digits, 1, Len(digits) - 1))
            + DigitValue(digits[Len(digits)])

\* C23: for every amount a >= 0, format_currency(a) is "$" followed by a
\* rounded to two decimal places: it starts with "$", has one decimal
\* point with exactly two digits after it, and reads back as a rounded to
\* cents; 100.0 gives "$100.00", 0.0 gives "$0.00", 10.999 gives "$11.00".
CurrencyHasTwoDecimals ==
    (call.fn = "format_currency" /\ call.done /\ call.amount >= 0) =>
        LET t == call.result
            n == Len(t)
        IN  /\ n >= 5
            /\ t[1] = "$"
            /\ t[n - 2] = "."
            /\ \A k \in 2..n : k # n - 2 => IsDigit(t[k])
            /\ NumberOf(SubSeq(t, 2, n - 3) \o SubSeq(t, n - 1, n)) = round2(call.amount)
            /\ call.amount = 100000 => t = <<"$", "1", "0", "0", ".", "0", "0">>
            /\ call.amount = 0 => t = <<"$", "0", ".", "0", "0">>
            /\ call.amount = 10999 => t = <<"$", "1", "1", ".", "0", "0">>

\* C23 witness: 10.999 has been formatted as "$11.00"
ElevenDollars ==
    /\ call.fn = "format_currency"
    /\ call.done
    /\ call.amount = 10999
    /\ call.result = <<"$", "1", "1", ".", "0", "0">>

(***************************************************************************)
(* Claims about the timer delay (BootSpec) and dragging (DragSpec).        *)
(***************************************************************************)
\* C26: whatever the config file contains, every timer armed by the
\* scheduler main builds has the delay refresh_interval * 1000 ms of the
\* loaded config, between 10 000 and 300 000 ms, and the scheduler's
\* interval stays that value for the whole run.
TimerDelayFromLoadedConfig ==
    call.fn = "main" =>
        /\ \A t \in timers :
              /\ t.ms = loaded.config.refresh_interval * 1000
              /\ t.ms >= 10000
              /\ t.ms <= 300000
        /\ call.pc \in {"start", "running"} =>
              /\ loaded.raised = "none"
              /\ interval = loaded.config.refresh_interval * 1000
        /\ call.pc \notin {"load", "crashed"} =>
              call.refresh_interval = loaded.config.refresh_interval

\* C26 witness: the file asks for 301 seconds and the second cycle has
\* armed a timer of 300 000 ms
ClampedDelayArmed ==
    /\ call.fn = "main"
    /\ call.pc = "running"
    /\ file.refresh_interval = JInt(301)
    /\ fetches >= 2
    /\ \E t \in timers : t.ms = 300000

====
